---- MODULE Spec2Model ----
(***************************************************************************)
(* Model of activity_monitor: the pydantic event models (models.py) and    *)
(* the storage services (storage.py).                                      *)
(*                                                                         *)
(* Values are tagged records [t |-> <python type>, v |-> <value>] so that  *)
(* a validator's type check and coercion can be modelled by what pydantic  *)
(* v2 does (model_dump at storage.py:66 is the v2 API).  A raw record is a *)
(* function from keys to such values; a key that is absent is not in the   *)
(* function's DOMAIN.                                                      *)
(***************************************************************************)
EXTENDS Integers, Sequences, FiniteSets, TLC

VARIABLES
    pc,         \* position of the scenario being run
    rec,        \* the untyped input record handed to validation
    edits,      \* number of changes the client made to the canonical record
    out,        \* result of the last validation of rec
    request,    \* raw batch request: a sequence of untyped records
    batch,      \* result of BatchEventRequest validation of request
    idx,        \* number of events of the batch handed to the sink so far
    stdout,     \* blocks printed by ConsoleStorageService, oldest first
    response,   \* the BatchEventResponse built for the batch
    pending,    \* rows added to the session and not yet committed
    committed,  \* rows a read of the table returns
    calls       \* one record per finished PostgreSQLStorageService.store_event call

vars == <<pc, rec, edits, out, request, batch, idx, stdout, response,
          pending, committed, calls>>

(***************************************************************************)
(* Bounds of the model.                                                    *)
(***************************************************************************)
MaxEdits == 2
MaxBatch == 2
MaxCalls == 3

(***************************************************************************)
(* Python values.                                                          *)
(***************************************************************************)
S(a) == [t |-> "str", v |-> a]
I(a) == [t |-> "int", v |-> a]
F(a) == [t |-> "float", v |-> a]
B(a) == [t |-> "bool", v |-> a]
L(a) == [t |-> "list", v |-> a]
D(a) == [t |-> "dict", v |-> a]
Without(f, k) == [x \in (DOMAIN f) \ {k} |-> f[x]]
\* The value of a one-element set.  Written The({F(x) : x \in {e}}) it binds
\* x to the value of e, which is then computed once however often F uses it.
The(set) == CHOOSE x \in set : TRUE
Ok(val) == [ok |-> TRUE, v |-> val]
Err(type) == [ok |-> FALSE, err |-> type]

\* Strings the model's inputs use that Python parses as a number, a UUID or a
\* datetime; any other string fails the parse.
IntLiterals == ("7" :> 7) @@ ("120" :> 120)
UuidLiterals == {"6f1c0000-0000-4000-8000-00000000000a", "6f1c0000-0000-4000-8000-00000000000b"}
DatetimeLiterals == {"2024-05-01T10:00:00"}
BoolLiterals == ("true" :> TRUE) @@ ("false" :> FALSE)

(***************************************************************************)
(* Field validators of pydantic v2 in its default (lax) mode.  A float of   *)
(* the model is a whole number, so the int validator takes it; a datetime  *)
(* given as a number is not among the inputs.                              *)
(***************************************************************************)
ValidateStr(val) ==
    IF val.t = "str" THEN Ok(val) ELSE Err("string_type")

ValidateInt(val) ==
    CASE val.t = "int" -> Ok(val)
      [] val.t = "bool" -> Ok(I(IF val.v THEN 1 ELSE 0))
      [] val.t = "float" -> Ok(I(val.v))
      [] val.t = "str" -> IF val.v \in DOMAIN IntLiterals
                            THEN Ok(I(IntLiterals[val.v]))
                            ELSE Err("int_parsing")
      [] OTHER -> Err("int_type")

ValidateFloat(val) ==
    CASE val.t = "float" -> Ok(val)
      [] val.t = "int" -> Ok(F(val.v))
      [] val.t = "bool" -> Ok(F(IF val.v THEN 1 ELSE 0))
      [] val.t = "str" -> IF val.v \in DOMAIN IntLiterals
                            THEN Ok(F(IntLiterals[val.v]))
                            ELSE Err("float_parsing")
      [] OTHER -> Err("float_type")

ValidateBool(val) ==
    CASE val.t = "bool" -> Ok(val)
      [] val.t = "int" -> IF val.v \in {0, 1} THEN Ok(B(val.v = 1)) ELSE Err("bool_parsing")
      [] val.t = "str" -> IF val.v \in DOMAIN BoolLiterals
                            THEN Ok(B(BoolLiterals[val.v]))
                            ELSE Err("bool_parsing")
      [] OTHER -> Err("bool_type")

ValidateUuid(val) ==
    CASE val.t = "uuid" -> Ok(val)
      [] val.t = "str" -> IF val.v \in UuidLiterals
                            THEN Ok([t |-> "uuid", v |-> val.v])
                            ELSE Err("uuid_parsing")
      [] OTHER -> Err("uuid_type")

ValidateDatetime(val) ==
    CASE val.t = "datetime" -> Ok(val)
      [] val.t = "str" -> IF val.v \in DatetimeLiterals
                            THEN Ok([t |-> "datetime", v |-> val.v])
                            ELSE Err("datetime_from_date_parsing")
      [] OTHER -> Err("datetime_type")

\* List[str]: a list whose every element is a str.
ValidateStrList(val) ==
    IF val.t # "list" THEN Err("list_type")
    ELSE IF \E i \in DOMAIN val.v : ~ValidateStr(val.v[i]).ok THEN Err("string_type")
    ELSE Ok(val)

\* Dict[str, int]: any dict; keys are kept as they are (no key set is
\* declared), every value goes through the int validator.
ValidateIntDict(val) ==
    IF val.t # "dict" THEN Err("dict_type")
    ELSE IF \E k \in DOMAIN val.v : ~ValidateInt(val.v[k]).ok THEN Err("int_parsing")
    ELSE Ok(D([k \in DOMAIN val.v |-> ValidateInt(val.v[k]).v]))

\* List[Dict[str, int]]
ValidateIntDictList(val) ==
    IF val.t # "list" THEN Err("list_type")
    ELSE IF \E i \in DOMAIN val.v : ~ValidateIntDict(val.v[i]).ok THEN Err("dict_type")
    ELSE Ok(L([i \in DOMAIN val.v |-> ValidateIntDict(val.v[i]).v]))

ValidateField(type, val) ==
    CASE type = "str" -> ValidateStr(val)
      [] type = "int" -> ValidateInt(val)
      [] type = "float" -> ValidateFloat(val)
      [] type = "bool" -> ValidateBool(val)
      [] type = "UUID" -> ValidateUuid(val)
      [] type = "datetime" -> ValidateDatetime(val)
      [] type = "List[str]" -> ValidateStrList(val)
      [] type = "Dict[str,int]" -> ValidateIntDict(val)
      [] type = "List[Dict[str,int]]" -> ValidateIntDictList(val)

(***************************************************************************)
(* The schemas: every model is the sequence of its fields in declaration   *)
(* order.  Field(...) marks a required field, a default makes it optional. *)
(***************************************************************************)
Req(name, type) == [name |-> name, type |-> type, required |-> TRUE]
Opt(name, type, default) ==
    [name |-> name, type |-> type, required |-> FALSE, default |-> default]

\* timestamp's default_factory is datetime.now: the time of validation.
Now == [t |-> "datetime", v |-> "now"]

BaseEvent ==
    << Req("session_id", "UUID"),
       Req("website_id", "UUID"),
       Req("url", "str"),
       Opt("timestamp", "datetime", Now) >>

ClickPayload ==
    << Req("element_id", "str"),
       Opt("element_classes", "List[str]", L(<< >>)),
       Req("position", "Dict[str,int]") >>

ScrollPayload ==
    << Req("scroll_depth_px", "int"),
       Req("scroll_depth_percent", "float"),
       Req("viewport_height", "int"),
       Req("document_height", "int") >>

MouseMovementPayload ==
    << Req("positions", "List[Dict[str,int]]"),
       Req("button", "str"),
       Req("duration_ms", "int") >>

\* KeypressPayload with target_element_id given a default, so no longer required.
KeypressPayloadOptionalTarget ==
    << Req("key", "str"),
       Req("code", "str"),
       Opt("alt_key", "bool", B(FALSE)),
       Opt("ctrl_key", "bool", B(FALSE)),
       Opt("shift_key", "bool", B(FALSE)),
       Opt("meta_key", "bool", B(FALSE)),
       Opt("target_element_id", "str", S("")) >>

KeypressPayload ==
    << Req("key", "str"),
       Req("code", "str"),
       Opt("alt_key", "bool", B(FALSE)),
       Opt("ctrl_key", "bool", B(FALSE)),
       Opt("shift_key", "bool", B(FALSE)),
       Opt("meta_key", "bool", B(FALSE)),
       Req("target_element_id", "str") >>

WindowResizePayload ==
    << Req("old_width", "int"),
       Req("old_height", "int"),
       Req("new_width", "int"),
       Req("new_height", "int") >>

\* The members of the Union, in the order they are written.
EventModelMembers ==
    << "ClickEvent", "ScrollEvent", "MouseMovementEvent", "KeypressEvent",
       "WindowResizeEvent" >>
EventClasses == {EventModelMembers[i] : i \in DOMAIN EventModelMembers}

\* Each event class: the default of its event_type field and the class of
\* its payload field.
ClickEvent == [event_type |-> "click", payload |-> "ClickPayload"]
ScrollEvent == [event_type |-> "scroll", payload |-> "ScrollPayload"]
MouseMovementEvent == [event_type |-> "mouse_move", payload |-> "MouseMovementPayload"]
KeypressEvent == [event_type |-> "keypress", payload |-> "KeypressPayload"]
WindowResizeEvent == [event_type |-> "window_resize", payload |-> "WindowResizePayload"]

EventClass(cls) ==
    CASE cls = "ClickEvent" -> ClickEvent
      [] cls = "ScrollEvent" -> ScrollEvent
      [] cls = "MouseMovementEvent" -> MouseMovementEvent
      [] cls = "KeypressEvent" -> KeypressEvent
      [] cls = "WindowResizeEvent" -> WindowResizeEvent

PayloadSchema(pcls) ==
    CASE pcls = "ClickPayload" -> ClickPayload
      [] pcls = "ScrollPayload" -> ScrollPayload
      [] pcls = "MouseMovementPayload" -> MouseMovementPayload
      [] pcls = "KeypressPayload" -> KeypressPayload
      [] pcls = "WindowResizePayload" -> WindowResizePayload

FieldNames(schema) == {schema[i].name : i \in DOMAIN schema}
RequiredNames(schema) == {schema[i].name : i \in {j \in DOMAIN schema : schema[j].required}}
FieldOf(schema, name) == schema[CHOOSE i \in DOMAIN schema : schema[i].name = name]

(***************************************************************************)
(* Validation of a dict against a model (BaseModel.model_validate): every  *)
(* declared field is validated when its key is present, is an error        *)
(* "missing" when it is required and absent, and takes its default         *)
(* otherwise; keys that are no declared field are ignored (no model sets   *)
(* extra).  All errors are collected.  An error names the field; the       *)
(* position inside a list or dict value is not modelled.                   *)
(***************************************************************************)
FieldResult(field, input) ==
    IF field.name \in DOMAIN input THEN ValidateField(field.type, input[field.name])
    ELSE IF field.required THEN Err("missing")
    ELSE Ok(field.default)

FieldsResult(res, fields_set) ==
    IF \A n \in DOMAIN res : res[n].ok
    THEN [ok |-> TRUE,
          fields |-> [n \in DOMAIN res |-> res[n].v],
          fields_set |-> fields_set]
    ELSE [ok |-> FALSE,
          errors |-> {[loc |-> <<n>>, type |-> res[n].err]
                        : n \in {m \in DOMAIN res : ~res[m].ok}}]

ValidateFields(schema, input) ==
    The({FieldsResult(res, Cardinality(FieldNames(schema) \cap DOMAIN input))
           : res \in {[n \in FieldNames(schema) |->
                          FieldResult(FieldOf(schema, n), input)]}})

\* A payload class validating the value of the payload key.
ValidatePayload(pcls, val) ==
    IF val.t # "dict"
    THEN [ok |-> FALSE, errors |-> {[loc |-> << >>, type |-> "model_type"]}]
    ELSE ValidateFields(PayloadSchema(pcls), val.v)

\* An event class validating an untyped record: the four BaseEvent fields,
\* then event_type (a plain str with the class's tag as default), then payload.
EventScalarFields(cls) ==
    BaseEvent \o << Opt("event_type", "str", S(EventClass(cls).event_type)) >>

EventResult(cls, scalars, pl) ==
    LET errors == (IF scalars.ok THEN {} ELSE scalars.errors)
                  \cup (IF pl.ok THEN {}
                        ELSE {[loc |-> <<"payload">> \o e.loc, type |-> e.type] : e \in pl.errors})
    IN  IF scalars.ok /\ pl.ok
        THEN [ok |-> TRUE,
              event |-> [cls |-> cls,
                         session_id |-> scalars.fields["session_id"],
                         website_id |-> scalars.fields["website_id"],
                         url |-> scalars.fields["url"],
                         timestamp |-> scalars.fields["timestamp"],
                         event_type |-> scalars.fields["event_type"],
                         payload |-> [cls |-> EventClass(cls).payload, fields |-> pl.fields]],
              fields_set |-> scalars.fields_set + 1 + pl.fields_set]
        ELSE [ok |-> FALSE, errors |-> errors]

ValidateEvent(cls, input) ==
    The({EventResult(cls, scalars, pl)
           : scalars \in {ValidateFields(EventScalarFields(cls), input)},
             pl \in {IF "payload" \in DOMAIN input
                      THEN ValidatePayload(EventClass(cls).payload, input["payload"])
                      ELSE [ok |-> FALSE,
                            errors |-> {[loc |-> << >>, type |-> "missing"]}]}})

(***************************************************************************)
(* EventModel = Union[...] validating an untyped record.  pydantic v2      *)
(* validates a Union in "smart" mode: every member validates the input and *)
(* the best success wins.  A dict is the same (inexact) match for every    *)
(* model class, so what decides between several successes depends on the   *)
(* pydantic release, which the repository does not pin: before 2.8 the     *)
(* leftmost success, from 2.8 on the success with the most fields set by   *)
(* the input, the leftmost among equals.  The event_type key takes no part *)
(* in the choice: it is a str field of every member.                       *)
(***************************************************************************)
SmartModes == {"leftmost", "fields_set"}

\* res[i] is the result of member i validating the input.
Successes(res) == {i \in DOMAIN res : res[i].ok}

Leftmost(res) ==
    CHOOSE i \in Successes(res) : \A j \in Successes(res) : i <= j

MostFieldsSet(res) ==
    CHOOSE i \in Successes(res) :
        \A j \in Successes(res) :
            \/ res[j].fields_set < res[i].fields_set
            \/ (res[j].fields_set = res[i].fields_set /\ i <= j)

UnionResult(res, mode) ==
    IF Successes(res) = {}
    THEN [ok |-> FALSE,
          errors |-> UNION {
              {[loc |-> <<EventModelMembers[i]>> \o e.loc, type |-> e.type]
                 : e \in res[i].errors} : i \in DOMAIN res}]
    ELSE res[IF mode = "leftmost" THEN Leftmost(res) ELSE MostFieldsSet(res)]

EventModel(input, mode) ==
    The({UnionResult(res, mode)
           : res \in {[i \in DOMAIN EventModelMembers |->
                         ValidateEvent(EventModelMembers[i], input)]}})

(***************************************************************************)
(* The inputs.  A client starts from a well-formed record of one of the    *)
(* five kinds and changes it at most MaxEdits times: it drops a key, sets  *)
(* a key to another value of the right or of a wrong type, names another   *)
(* event_type, or adds the fields of another kind to the payload.          *)
(***************************************************************************)
Position(x, y) == D([x |-> I(x), y |-> I(y)])

CanonicalPayload(pcls) ==
    CASE pcls = "ClickPayload" ->
            [element_id |-> S("buy-button"),
             element_classes |-> L(<<S("btn"), S("primary")>>),
             position |-> Position(10, 20)]
      [] pcls = "ScrollPayload" ->
            [scroll_depth_px |-> I(300),
             scroll_depth_percent |-> F(45),
             viewport_height |-> I(800),
             document_height |-> I(2400)]
      [] pcls = "MouseMovementPayload" ->
            [positions |-> L(<<Position(1, 2), Position(3, 4)>>),
             button |-> S("left"),
             duration_ms |-> I(150)]
      [] pcls = "KeypressPayload" ->
            [key |-> S("a"),
             code |-> S("KeyA"),
             alt_key |-> B(TRUE),
             ctrl_key |-> B(FALSE),
             shift_key |-> B(TRUE),
             meta_key |-> B(FALSE),
             target_element_id |-> S("search-box")]
      [] pcls = "WindowResizePayload" ->
            [old_width |-> I(1024),
             old_height |-> I(768),
             new_width |-> I(1280),
             new_height |-> I(720)]

CanonicalRecord(cls) ==
    [session_id |-> S("6f1c0000-0000-4000-8000-00000000000a"),
     website_id |-> S("6f1c0000-0000-4000-8000-00000000000b"),
     url |-> S("https://shop.example/cart"),
     timestamp |-> S("2024-05-01T10:00:00"),
     event_type |-> S(EventClass(cls).event_type),
     payload |-> D(CanonicalPayload(EventClass(cls).payload))]

KnownTags == {EventClass(c).event_type : c \in EventClasses}
UnknownTag == "hover"

\* Other values a client may send for a field of the given type.
Alternatives(type) ==
    CASE type = "str" -> {I(5)}
      [] type = "int" -> {S("7"), S("abc")}
      [] type = "float" -> {I(50), S("abc")}
      [] type = "bool" -> {I(1), S("abc")}
      [] type = "UUID" -> {S("not-a-uuid")}
      [] type = "datetime" -> {S("yesterday")}
      [] type = "List[str]" -> {L(<< >>), L(<<I(5)>>)}
      [] type = "Dict[str,int]" ->
            {D([x |-> I(10), y |-> I(20), z |-> I(5)]),
             D([x |-> I(10)]),
             D([x |-> S("abc"), y |-> I(20)])}
      [] type = "List[Dict[str,int]]" -> {L(<< >>), L(<<D([x |-> S("abc"), y |-> I(2)])>>)}

AllPayloadFields ==
    UNION {{PayloadSchema(EventClass(c).payload)[i]
              : i \in DOMAIN PayloadSchema(EventClass(c).payload)} : c \in EventClasses}
PayloadFieldType(name) == (CHOOSE f \in AllPayloadFields : f.name = name).type

EditInit ==
    /\ pc = "edit"
    /\ rec \in {CanonicalRecord(c) : c \in EventClasses}
    /\ edits = 0
    /\ out = [via |-> "none"]

Edited(r) ==
    /\ pc = "edit"
    /\ edits < MaxEdits
    /\ rec' = r
    /\ rec' # rec
    /\ edits' = edits + 1
    /\ UNCHANGED <<pc, out, request, batch, idx, stdout, response, pending, committed, calls>>

DropKey ==
    \E k \in DOMAIN rec : Edited(Without(rec, k))

SetEnvelopeKey ==
    \E i \in DOMAIN BaseEvent :
        \E val \in Alternatives(BaseEvent[i].type) :
            /\ BaseEvent[i].name \in DOMAIN rec
            /\ Edited([rec EXCEPT ![BaseEvent[i].name] = val])

SetEventType ==
    \E tag \in KnownTags \cup {UnknownTag} :
        Edited([k \in DOMAIN rec \cup {"event_type"} |->
                    IF k = "event_type" THEN S(tag) ELSE rec[k]])

DropPayloadKey ==
    /\ "payload" \in DOMAIN rec
    /\ \E k \in DOMAIN rec["payload"].v :
          Edited([rec EXCEPT !["payload"] = D(Without(rec["payload"].v, k))])

SetPayloadKey ==
    /\ "payload" \in DOMAIN rec
    /\ \E k \in DOMAIN rec["payload"].v :
          \E val \in Alternatives(PayloadFieldType(k)) :
              Edited([rec EXCEPT !["payload"] = D([rec["payload"].v EXCEPT ![k] = val])])

MergePayload ==
    /\ "payload" \in DOMAIN rec
    /\ \E c \in EventClasses :
          Edited([rec EXCEPT !["payload"] =
                     D(rec["payload"].v @@ CanonicalPayload(EventClass(c).payload))])

(***************************************************************************)
(* Validation of the record: through the Union, as a member of             *)
(* BatchEventPayload.events is validated, or by one event class directly.  *)
(***************************************************************************)
ResolveUnion ==
    /\ pc = "edit"
    /\ \E mode \in SmartModes :
          out' = [via |-> "EventModel", res |-> EventModel(rec, mode)]
    /\ pc' = "validated"
    /\ UNCHANGED <<rec, edits, request, batch, idx, stdout, response, pending, committed, calls>>

ConstructDirect ==
    /\ pc = "edit"
    /\ \E cls \in EventClasses :
          out' = [via |-> cls, res |-> ValidateEvent(cls, rec)]
    /\ pc' = "validated"
    /\ UNCHANGED <<rec, edits, request, batch, idx, stdout, response, pending, committed, calls>>

Idle ==
    /\ request = << >>
    /\ batch = [status |-> "none"]
    /\ idx = 0
    /\ stdout = << >>
    /\ response = [status |-> "none"]
    /\ pending = << >>
    /\ committed = << >>
    /\ calls = << >>

InitResolve == EditInit /\ Idle

(***************************************************************************)
(* The batch models.  BatchEventPayload.events is List[EventModel] with no *)
(* length constraint; BatchEventRequest.payload is a BatchEventPayload.     *)
(* One invalid element fails the validation of the whole request.          *)
(***************************************************************************)
EventListResult(res) ==
    IF \A i \in DOMAIN res : res[i].ok
    THEN [ok |-> TRUE, v |-> [i \in DOMAIN res |-> res[i].event]]
    ELSE [ok |-> FALSE,
          errors |-> UNION {{[loc |-> <<i>> \o e.loc, type |-> e.type]
                               : e \in res[i].errors}
                              : i \in {j \in DOMAIN res : ~res[j].ok}}]

ValidateEventList(val, mode) ==
    IF val.t # "list"
    THEN [ok |-> FALSE, errors |-> {[loc |-> << >>, type |-> "list_type"]}]
    ELSE The({EventListResult(res)
                : res \in {[i \in DOMAIN val.v |->
                              IF val.v[i].t = "dict" THEN EventModel(val.v[i].v, mode)
                              ELSE [ok |-> FALSE,
                                    errors |-> {[loc |-> << >>, type |-> "model_type"]}]]}})

\* The result of a model with the one field `key`, from the result r of
\* validating that field.
OneField(key, r) ==
    IF r.ok THEN [ok |-> TRUE, v |-> [k \in {key} |-> r.v]]
    ELSE [ok |-> FALSE,
          errors |-> {[loc |-> <<key>> \o e.loc, type |-> e.type] : e \in r.errors}]

BatchEventPayload(val, mode) ==
    IF val.t # "dict"
    THEN [ok |-> FALSE, errors |-> {[loc |-> << >>, type |-> "model_type"]}]
    ELSE IF "events" \notin DOMAIN val.v
    THEN [ok |-> FALSE, errors |-> {[loc |-> <<"events">>, type |-> "missing"]}]
    ELSE The({OneField("events", r) : r \in {ValidateEventList(val.v["events"], mode)}})

BatchEventRequest(val, mode) ==
    IF val.t # "dict"
    THEN [ok |-> FALSE, errors |-> {[loc |-> << >>, type |-> "model_type"]}]
    ELSE IF "payload" \notin DOMAIN val.v
    THEN [ok |-> FALSE, errors |-> {[loc |-> <<"payload">>, type |-> "missing"]}]
    ELSE The({OneField("payload", r) : r \in {BatchEventPayload(val.v["payload"], mode)}})

BatchEventResponse(success, processed_event_count, message) ==
    [success |-> success,
     processed_event_count |-> processed_event_count,
     message |-> message]

(***************************************************************************)
(* ConsoleStorageService.store_event: seven print calls, each one line on  *)
(* standard output.  A line is the text of the f-string and the value      *)
(* formatted into it.                                                      *)
(***************************************************************************)
Rule == [text |-> "=", times |-> 30]
Line(text, value) == [text |-> text, value |-> value]

\* ConsoleStoreEvent printing the website id on the session line.
ConsoleStoreEventWrongId(event) ==
    << Rule,
       Line("Storing event: ", event),
       Line("  - Event Type: ", event.event_type),
       Line("  - Session ID: ", event.website_id),
       Line("  - Timestamp: ", event.timestamp),
       Line("  - Payload: ", event.payload),
       Rule >>

ConsoleStoreEvent(event) ==
    << Rule,
       Line("Storing event: ", event),
       Line("  - Event Type: ", event.event_type),
       Line("  - Session ID: ", event.session_id),
       Line("  - Timestamp: ", event.timestamp),
       Line("  - Payload: ", event.payload),
       Rule >>

(***************************************************************************)
(* The records the batch and storage scenarios draw from: the well-formed  *)
(* record of each kind, a click whose position has a third key, a click    *)
(* payload sent under the scroll tag, and a keypress without its key.      *)
(***************************************************************************)
ClickWithZ ==
    [CanonicalRecord("ClickEvent") EXCEPT !["payload"] =
        D([CanonicalPayload("ClickPayload") EXCEPT
              !["position"] = D([x |-> I(10), y |-> I(20), z |-> I(5)])])]
ClickTaggedScroll ==
    [CanonicalRecord("ClickEvent") EXCEPT !["event_type"] = S("scroll")]
KeypressWithoutKey ==
    [CanonicalRecord("KeypressEvent") EXCEPT !["payload"] =
        D(Without(CanonicalPayload("KeypressPayload"), "key"))]

BatchRecords ==
    {CanonicalRecord(c) : c \in EventClasses}
        \cup {ClickWithZ, ClickTaggedScroll, KeypressWithoutKey}

SeqsUpTo(set, n) == UNION {[1..k -> set] : k \in 0..n}

RequestOf(records) ==
    D([payload |-> D([events |-> L([i \in DOMAIN records |-> D(records[i])])])])

(***************************************************************************)
(* Batch ingestion with the diagnostic sink: the request is validated,     *)
(* every event of the batch is handed to the sink in order, one per step,  *)
(* and the response is built.                                              *)
(***************************************************************************)
BatchInit ==
    /\ pc = "received"
    /\ request \in {RequestOf(rs) : rs \in SeqsUpTo(BatchRecords, MaxBatch)}
    /\ batch = [status |-> "none"]
    /\ idx = 0
    /\ stdout = << >>
    /\ response = [status |-> "none"]

ValidateRequest ==
    /\ pc = "received"
    /\ \E mode \in SmartModes :
          \E r \in {BatchEventRequest(request, mode)} :
              IF r.ok
              THEN /\ batch' = [status |-> "valid", events |-> r.v.payload.events, mode |-> mode]
                   /\ pc' = "processing"
              ELSE /\ batch' = [status |-> "invalid", errors |-> r.errors]
                   /\ pc' = "rejected"
    /\ UNCHANGED <<rec, edits, out, request, idx, stdout, response, pending, committed, calls>>

StoreNext ==
    /\ pc = "processing"
    /\ idx < Len(batch.events)
    /\ stdout' = stdout \o ConsoleStoreEvent(batch.events[idx + 1])
    /\ idx' = idx + 1
    /\ UNCHANGED <<pc, rec, edits, out, request, batch, response, pending, committed, calls>>

Respond ==
    /\ pc = "processing"
    /\ idx = Len(batch.events)
    /\ response' = BatchEventResponse(TRUE, idx, "events processed")
    /\ pc' = "responded"
    /\ UNCHANGED <<rec, edits, out, request, batch, idx, stdout, pending, committed, calls>>

InitBatch ==
    /\ BatchInit
    /\ rec = << >>
    /\ edits = 0
    /\ out = [via |-> "none"]
    /\ pending = << >>
    /\ committed = << >>
    /\ calls = << >>

(***************************************************************************)
(* PostgreSQLStorageService.  db_session is a SQLAlchemy session: add puts *)
(* a row among the pending ones, commit makes the pending rows visible and *)
(* leaves none pending, a failed commit leaves them pending, and rollback  *)
(* discards the pending rows (also when it ends by raising).  Each of the  *)
(* calls made on the session may raise.                                    *)
(***************************************************************************)
Session(p, c) == [pending |-> p, committed |-> c]
Add(sess, row) == Session(Append(sess.pending, row), sess.committed)
Commit(sess) == Session(<< >>, sess.committed \o sess.pending)
Rollback(sess) == Session(<< >>, sess.committed)

\* payload.model_dump(): the fields of the payload as a dict.
ModelDump(payload) == D(payload.fields)

\* The row of the events table: one column per keyword.
SqlAlchemyEventModelTable(session_id, website_id, url, timestamp, event_type, payload) ==
    [session_id |-> session_id,
     website_id |-> website_id,
     url |-> url,
     timestamp |-> timestamp,
     event_type |-> event_type,
     payload |-> payload]

DbEvent(event) ==
    SqlAlchemyEventModelTable(event.session_id, event.website_id, event.url,
                              event.timestamp, event.event_type,
                              ModelDump(event.payload))

\* Where the body of the try statement may raise: building the row, add, commit.
Faults == {"none", "build", "add", "commit"}
Raised(at) == [type |-> "Error", at |-> at]

\* The body of the try statement: the session it leaves and what it raised.
TryBody(sess, event, fault) ==
    CASE fault = "build" -> [sess |-> sess, raised |-> TRUE, e |-> Raised("build")]
      [] fault = "add" -> [sess |-> sess, raised |-> TRUE, e |-> Raised("add")]
      [] fault = "commit" ->
            [sess |-> Add(sess, DbEvent(event)), raised |-> TRUE, e |-> Raised("commit")]
      [] fault = "none" ->
            [sess |-> Commit(Add(sess, DbEvent(event))), raised |-> FALSE]

\* The except clause: rollback, then raise Exception(f"Failed to store event: {e}").
\* When rollback itself raises, that exception leaves store_event instead.
\* ExceptClause without the call of rollback.
ExceptClauseWithoutRollback(sess, e, rollback_raises) ==
    [sess |-> sess,
     rollbacks |-> 0,
     outcome |-> "raised",
     exc |-> [type |-> "Exception", message |-> "Failed to store event: ", cause |-> e]]

ExceptClause(sess, e, rollback_raises) ==
    [sess |-> Rollback(sess),
     rollbacks |-> 1,
     outcome |-> "raised",
     exc |-> IF rollback_raises
             THEN [type |-> "Error", at |-> "rollback", context |-> e]
             ELSE [type |-> "Exception", message |-> "Failed to store event: ", cause |-> e]]

StoreEventResult(t, rollback_raises) ==
    IF t.raised THEN ExceptClause(t.sess, t.e, rollback_raises)
    ELSE [sess |-> t.sess, rollbacks |-> 0, outcome |-> "returned"]

PostgreSQLStoreEvent(sess, event, fault, rollback_raises) ==
    The({StoreEventResult(t, rollback_raises) : t \in {TryBody(sess, event, fault)}})

(***************************************************************************)
(* A sequence of store_event calls on one session, each with the event     *)
(* that validation produced from a record.                                 *)
(***************************************************************************)
StoreRecords ==
    {CanonicalRecord("ClickEvent"), CanonicalRecord("KeypressEvent"), ClickWithZ}

PgStore ==
    /\ pc = "storing"
    /\ Len(calls) < MaxCalls
    /\ \E input \in StoreRecords, mode \in SmartModes, fault \in Faults,
          rollback_raises \in BOOLEAN :
          /\ fault = "none" => ~rollback_raises
          /\ \E validated \in {EventModel(input, mode)} :
                /\ validated.ok
                /\ \E r \in {PostgreSQLStoreEvent(Session(pending, committed),
                                                  validated.event, fault, rollback_raises)} :
                      /\ pending' = r.sess.pending
                      /\ committed' = r.sess.committed
                      /\ calls' = Append(calls, [input |-> input,
                                                 event |-> validated.event,
                                                 fault |-> fault,
                                                 result |-> r])
    /\ UNCHANGED <<pc, rec, edits, out, request, batch, idx, stdout, response>>

InitStore ==
    /\ pc = "storing"
    /\ rec = << >>
    /\ edits = 0
    /\ out = [via |-> "none"]
    /\ Idle

(***************************************************************************)
(* The whole model: one of the three scenarios, told apart by pc.          *)
(***************************************************************************)
Init == InitResolve \/ InitBatch \/ InitStore

Next ==
    \/ DropKey
    \/ SetEnvelopeKey
    \/ SetEventType
    \/ DropPayloadKey
    \/ SetPayloadKey
    \/ MergePayload
    \/ ResolveUnion
    \/ ConstructDirect
    \/ ValidateRequest
    \/ StoreNext
    \/ Respond
    \/ PgStore

Spec == Init /\ [][Next]_vars

(***************************************************************************)
(* Properties of validation.                                               *)
(***************************************************************************)
Validated == pc = "validated"
ThroughUnion == Validated /\ out.via = "EventModel"
Direct == Validated /\ out.via \in EventClasses
InputPayload == rec["payload"].v
HasTag == "event_type" \in DOMAIN rec /\ rec["event_type"].t = "str"

\* The five tags and the payload variant and event class each one names.
VariantOfTag ==
    [click |-> "ClickPayload", scroll |-> "ScrollPayload",
     mouse_move |-> "MouseMovementPayload", keypress |-> "KeypressPayload",
     window_resize |-> "WindowResizePayload"]
ClassOfTag ==
    [click |-> "ClickEvent", scroll |-> "ScrollEvent",
     mouse_move |-> "MouseMovementEvent", keypress |-> "KeypressEvent",
     window_resize |-> "WindowResizeEvent"]
TagOfClass(c) == CHOOSE tag \in DOMAIN ClassOfTag : ClassOfTag[tag] = c

TagNamesPayload(event) ==
    /\ event.event_type.v \in DOMAIN VariantOfTag
    /\ event.payload.cls = VariantOfTag[event.event_type.v]

\* C1: every Event that validation produced, through the Union, by an event
\* class directly or inside a batch, carries the payload variant that its
\* event_type tag names.
C1_TagNamesPayloadVariant ==
    /\ (Validated /\ out.res.ok) => TagNamesPayload(out.res.event)
    /\ batch.status = "valid" =>
          \A i \in DOMAIN batch.events : TagNamesPayload(batch.events[i])

\* The first payload schema, in the order Click, Scroll, MouseMovement,
\* Keypress, WindowResize, that validates the payload of the input.
PrecedenceOrder ==
    << "ClickPayload", "ScrollPayload", "MouseMovementPayload", "KeypressPayload",
       "WindowResizePayload" >>
FirstValidSchema ==
    LET valid == {i \in DOMAIN PrecedenceOrder :
                     ValidatePayload(PrecedenceOrder[i], rec["payload"]).ok}
    IN  PrecedenceOrder[CHOOSE i \in valid : \A j \in valid : i <= j]

\* C2: resolution through the Union selects the variant that an explicit known
\* event_type names and, when event_type is absent, the first schema in the
\* precedence order that validates the payload.
C2_ResolutionFollowsPolicy ==
    (ThroughUnion /\ out.res.ok) =>
        /\ (HasTag /\ rec["event_type"].v \in DOMAIN ClassOfTag)
              => out.res.event.cls = ClassOfTag[rec["event_type"].v]
        /\ ("event_type" \notin DOMAIN rec)
              => out.res.event.payload.cls = FirstValidSchema

\* C3: an input whose explicit event_type is none of the five tags fails
\* resolution and yields no Event, whatever its payload.
C3_UnknownTagIsRejected ==
    (ThroughUnion /\ HasTag /\ rec["event_type"].v \notin DOMAIN ClassOfTag)
        => ~out.res.ok

\* The required and the optional payload fields of each event class.
RequiredOf ==
    [ClickEvent |-> {"element_id", "position"},
     ScrollEvent |-> {"scroll_depth_px", "scroll_depth_percent", "viewport_height",
                      "document_height"},
     MouseMovementEvent |-> {"positions", "button", "duration_ms"},
     KeypressEvent |-> {"key", "code", "target_element_id"},
     WindowResizeEvent |-> {"old_width", "old_height", "new_width", "new_height"}]
OptionalFields ==
    {"element_classes", "alt_key", "ctrl_key", "shift_key", "meta_key", "timestamp"}
MissingRequired(c) ==
    IF "payload" \in DOMAIN rec THEN RequiredOf[c] \ DOMAIN InputPayload ELSE {}
Last(seq) == seq[Len(seq)]

\* C7: a payload that lacks a required field of the schema validating it fails
\* with an error "missing" that names the field, and yields no Event; no error
\* "missing" ever names an optional field.
C7_MissingRequiredFieldFails ==
    /\ Direct =>
          \A f \in MissingRequired(out.via) :
              /\ ~out.res.ok
              /\ [loc |-> <<"payload", f>>, type |-> "missing"] \in out.res.errors
    /\ (ThroughUnion /\ out.res.ok) => MissingRequired(out.res.event.cls) = {}
    /\ (ThroughUnion /\ ~out.res.ok) =>
          \A c \in EventClasses : \A f \in MissingRequired(c) :
              [loc |-> <<c, "payload", f>>, type |-> "missing"] \in out.res.errors
    /\ (Validated /\ ~out.res.ok) =>
          \A e \in out.res.errors :
              e.type = "missing" => Last(e.loc) \notin OptionalFields \cup {"event_type"}

\* A KeypressEvent validated a payload without target_element_id and without
\* the optional alt_key: it failed, and for target_element_id alone.
C7_Witness ==
    /\ Direct
    /\ out.via = "KeypressEvent"
    /\ "payload" \in DOMAIN rec
    /\ DOMAIN InputPayload =
          DOMAIN CanonicalPayload("KeypressPayload") \ {"target_element_id", "alt_key"}
    /\ ~out.res.ok
    /\ out.res.errors = {[loc |-> <<"payload", "target_element_id">>, type |-> "missing"]}

\* The declared fields of each payload schema with their types, and the
\* declared defaults of the optional ones.
DeclaredFields ==
    [ClickEvent |-> [element_id |-> "str", element_classes |-> "List[str]",
                     position |-> "Dict[str,int]"],
     ScrollEvent |-> [scroll_depth_px |-> "int", scroll_depth_percent |-> "float",
                      viewport_height |-> "int", document_height |-> "int"],
     MouseMovementEvent |-> [positions |-> "List[Dict[str,int]]", button |-> "str",
                             duration_ms |-> "int"],
     KeypressEvent |-> [key |-> "str", code |-> "str", alt_key |-> "bool",
                        ctrl_key |-> "bool", shift_key |-> "bool", meta_key |-> "bool",
                        target_element_id |-> "str"],
     WindowResizeEvent |-> [old_width |-> "int", old_height |-> "int",
                            new_width |-> "int", new_height |-> "int"]]
DeclaredDefaults ==
    [element_classes |-> L(<< >>), alt_key |-> B(FALSE), ctrl_key |-> B(FALSE),
     shift_key |-> B(FALSE), meta_key |-> B(FALSE)]

\* A value that already has the declared type (a float field also takes an int).
IsIntDict(val) == val.t = "dict" /\ \A k \in DOMAIN val.v : val.v[k].t = "int"
WellTyped(type, val) ==
    CASE type = "str" -> val.t = "str"
      [] type = "int" -> val.t = "int"
      [] type = "float" -> val.t \in {"float", "int"}
      [] type = "bool" -> val.t = "bool"
      [] type = "List[str]" -> val.t = "list" /\ \A i \in DOMAIN val.v : val.v[i].t = "str"
      [] type = "Dict[str,int]" -> IsIntDict(val)
      [] type = "List[Dict[str,int]]" ->
            val.t = "list" /\ \A i \in DOMAIN val.v : IsIntDict(val.v[i])

\* Python's ==: an int and a float are equal when they are the same number.
PyEq(a, b) ==
    IF a.t \in {"int", "float"} /\ b.t \in {"int", "float"} THEN a.v = b.v ELSE a = b

\* The input is a valid event of class c: a complete, parseable envelope, the
\* tag of c or none, and a payload with the required fields of c, every field
\* of c that is present being of its declared type.  Keys that are no field
\* of c are ignored by validation and do not make the input invalid.
MatchesSchema(c) ==
    /\ {"session_id", "website_id", "url", "payload"} \subseteq DOMAIN rec
    /\ rec["session_id"].t = "str" /\ rec["session_id"].v \in UuidLiterals
    /\ rec["website_id"].t = "str" /\ rec["website_id"].v \in UuidLiterals
    /\ rec["url"].t = "str"
    /\ "timestamp" \in DOMAIN rec => rec["timestamp"].v \in DatetimeLiterals
    /\ "event_type" \in DOMAIN rec => rec["event_type"] = S(TagOfClass(c))
    /\ RequiredOf[c] \subseteq DOMAIN InputPayload
    /\ \A k \in DOMAIN InputPayload \cap DOMAIN DeclaredFields[c] :
          WellTyped(DeclaredFields[c][k], InputPayload[k])

\* The Event is a faithful image of the input under the schema that produced
\* it: it carries that schema's tag, and every payload field has the value the
\* input gave it, or its declared default when the input omitted it.
RoundTrip(event) ==
    /\ event.event_type = S(TagOfClass(event.cls))
    /\ event.payload.cls = VariantOfTag[TagOfClass(event.cls)]
    /\ DOMAIN event.payload.fields = DOMAIN DeclaredFields[event.cls]
    /\ \A k \in DOMAIN DeclaredFields[event.cls] :
          PyEq(event.payload.fields[k],
               IF k \in DOMAIN InputPayload THEN InputPayload[k]
               ELSE DeclaredDefaults[k])

\* C10: a valid input of one of the five schemas resolves, through the Union,
\* to an Event whose event_type is the tag of the schema that produced it and
\* whose payload field values are those of the input.
C10_RoundTripFidelity ==
    (ThroughUnion /\ \E c \in EventClasses : MatchesSchema(c)) =>
        /\ out.res.ok
        /\ RoundTrip(out.res.event)

\* The same, for the inputs whose payload holds fields of one schema only: the
\* Event is of that schema.  This much holds of the model.
RoundTripOfUnmixedInput ==
    \A c \in EventClasses :
        (/\ ThroughUnion
         /\ MatchesSchema(c)
         /\ DOMAIN InputPayload \subseteq DOMAIN DeclaredFields[c]) =>
            /\ out.res.ok
            /\ out.res.event.cls = c
            /\ RoundTrip(out.res.event)

(***************************************************************************)
(* Properties of batches.                                                  *)
(***************************************************************************)
RequestRecords == request.v["payload"].v["events"].v

\* C9: every batch that validation produced holds at least one Event.
C9_BatchIsNonEmpty ==
    batch.status = "valid" => Len(batch.events) > 0

\* The lines the diagnostic sink printed on its i-th invocation.
Block(i) == SubSeq(stdout, 7 * (i - 1) + 1, 7 * i)
Shows(block, event) ==
    /\ block[1] = [text |-> "=", times |-> 30]
    /\ block[2] = [text |-> "Storing event: ", value |-> event]
    /\ block[3] = [text |-> "  - Event Type: ", value |-> event.event_type]
    /\ block[4] = [text |-> "  - Session ID: ", value |-> event.session_id]
    /\ block[5] = [text |-> "  - Timestamp: ", value |-> event.timestamp]
    /\ block[6] = [text |-> "  - Payload: ", value |-> event.payload]
    /\ block[7] = [text |-> "=", times |-> 30]

C4_FailureRollsBackAndWraps ==
    \A i \in DOMAIN calls :
        /\ calls[i].fault # "none" =>
              /\ calls[i].result.rollbacks = 1
              /\ calls[i].result.outcome = "raised"
              /\ "cause" \in DOMAIN calls[i].result.exc
              /\ calls[i].result.exc.cause = [type |-> "Error", at |-> calls[i].fault]
        /\ calls[i].fault = "none" =>
              /\ calls[i].result.outcome = "returned"
              /\ calls[i].result.rollbacks = 0

\* The calls that returned normally, in call order.
Returned == SelectSeq(calls, LAMBDA c : c.result.outcome = "returned")
RowOf(event) ==
    [session_id |-> event.session_id, website_id |-> event.website_id,
     url |-> event.url, timestamp |-> event.timestamp,
     event_type |-> event.event_type, payload |-> D(event.payload.fields)]

\* C5: after any sequence of store_event calls the visible rows are the rows
\* of the calls that returned normally, one per call and in call order, and
\* the session holds no pending row.
C5_VisibleRowsAreReturnedCalls ==
    /\ Len(committed) = Len(Returned)
    /\ \A i \in DOMAIN committed : committed[i] = RowOf(Returned[i].event)
    /\ pending = << >>

\* A call whose commit failed was followed by a call that returned normally.
C5_Witness ==
    /\ Len(calls) = 3
    /\ calls[1].fault = "none"
    /\ calls[2].fault = "commit"
    /\ calls[3].fault = "none"
    /\ Len(committed) = 2

\* C8: the position of every click payload that validation produced, and of
\* every row built from it, has exactly the keys x and y; a position sent with
\* exactly x and y is stored unchanged.
C8_PositionKeysAreXY ==
    /\ \A i \in DOMAIN calls :
          calls[i].event.payload.cls = "ClickPayload" =>
              /\ DOMAIN calls[i].event.payload.fields["position"].v = {"x", "y"}
              /\ DOMAIN calls[i].input["payload"].v["position"].v = {"x", "y"}
                    => calls[i].event.payload.fields["position"]
                          = calls[i].input["payload"].v["position"]
    /\ \A i \in DOMAIN committed :
          "position" \in DOMAIN committed[i].payload.v =>
              DOMAIN committed[i].payload.v["position"].v = {"x", "y"}

====
